---- MODULE Spec2Model ----
(***************************************************************************)
(* A model of charms.operator_libs_linux.v0.snap: the Snap record and its  *)
(* ensure operation, the SnapClient queries, the SnapCache read-through    *)
(* mapping, the process-wide _Cache singleton and the bare functions       *)
(* add / remove / ensure with _wrap_snap_operations.                       *)
(*                                                                         *)
(* Objects are modelled by identity: heap is the sequence of Snap objects  *)
(* allocated so far and a reference is an index into it. snap_map maps a   *)
(* name to None (a placeholder) or to a reference. Everything outside the  *)
(* process (the snapd daemon's answers, the exit status of the snap        *)
(* command) is an input of the step that consumes it.                      *)
(***************************************************************************)
EXTENDS Integers, Sequences, FiniteSets, TLC

VARIABLES
    snapd_bin,    \* os.path.isfile("/usr/bin/snap")
    names_file,   \* /var/cache/snapd/names: NoFile or its lines
    installed,    \* the snaps installed on the system (snapd's truth)
    cache,        \* _Cache._cache is not None
    snap_map,     \* SnapCache._snap_map of the singleton cache
    heap,         \* the Snap objects, by reference
    last          \* what the last call did and what its caller observed

vars == <<snapd_bin, names_file, installed, cache, snap_map, heap, last>>

----------------------------------------------------------------------------
(* Bounds *)

MaxBatch == 2      \* longest snap_names list passed to add/remove/ensure
MaxFileLines == 2  \* longest /var/cache/snapd/names

Names == {"a", "b"}

Channels == {"", "edge"}

\* the lines /var/cache/snapd/names is made of, as character sequences
FileLines == {<<"a", "\n">>, <<" ", "b", " ", "\n">>, <<" ", "\n">>}

----------------------------------------------------------------------------
(* SnapState *)

Present == "SnapState.Present"
Absent == "SnapState.Absent"
Latest == "SnapState.Latest"
Available == "SnapState.Available"

SnapState == {Present, Absent, Latest, Available}

\* SnapState(value): the member with that value, "ValueError" when none has
SnapStateOf(s) ==
    CASE s = "present" -> Present
      [] s = "absent" -> Absent
      [] s = "latest" -> Latest
      [] s = "available" -> Available
      [] OTHER -> "ValueError"

\* a reference that is None
None == 0

\* names_file when os.path.isfile("/var/cache/snapd/names") is false
NoFile == << <<"ENOENT">> >>

----------------------------------------------------------------------------
(* What snapd answers about a snap: i["channel"], i["revision"],           *)
(* i["confinement"] of GET snaps and GET find.                             *)

SnapInfo(name) ==
    IF name = "a"
    THEN [name |-> name, channel |-> "stable", revision |-> "10", confinement |-> "strict"]
    ELSE [name |-> name, channel |-> "edge", revision |-> "7", confinement |-> "classic"]

\* Snap.__init__
Snap(name, state, channel, revision, confinement) ==
    [name |-> name, state |-> state, channel |-> channel,
     revision |-> revision, confinement |-> confinement]

----------------------------------------------------------------------------
(* Snap._snap and the commands built on it.  A command is the argument     *)
(* vector handed to subprocess.check_output; ok is its exit status being 0 *)
(* A result is [log, err]: the I/O performed and the exception raised.     *)

Snap_snap(self, command, optargs, ok) ==
    [log |-> << <<"snap", command, self.name>> \o optargs >>,
     err |-> IF ok THEN "None" ELSE "SnapError"]

\* Snap._install without the channel flag
Snap_install_no_channel(self, channel, ok) ==
    LET confinement == IF self.confinement = "classic" THEN "--classic" ELSE ""
    IN Snap_snap(self, "install", <<confinement, "">>, ok)

Snap_install(self, channel, ok) ==
    LET confinement == IF self.confinement = "classic" THEN "--classic" ELSE ""
        chan == IF channel # "" THEN "--channel=\"" \o channel \o "\"" ELSE ""
    IN Snap_snap(self, "install", <<confinement, chan>>, ok)

Snap_refresh(self, channel, ok) ==
    LET chan == IF channel # "" THEN "--" \o channel ELSE self.channel
    IN Snap_snap(self, "refresh", <<chan>>, ok)

Snap_remove(self, ok) == Snap_snap(self, "remove", <<>>, ok)

\* Snap.ensure without its last line, self._state = state
Snap_ensure_keeps_state(self, state, classic, channel, ok) ==
    LET s1 == [self EXCEPT !.confinement =
                  IF classic \/ self.confinement = "classic" THEN "classic" ELSE ""]
    IN IF s1.state # state
       THEN LET r == IF state \notin {Present, Latest}
                     THEN Snap_remove(s1, ok)
                     ELSE Snap_install(s1, channel, ok)
            IN [self |-> s1, log |-> r.log, err |-> r.err]
       ELSE [self |-> s1, log |-> <<>>, err |-> "None"]

\* Snap.ensure with the confinement taken from classic alone
Snap_ensure_classic_only(self, state, classic, channel, ok) ==
    LET s1 == [self EXCEPT !.confinement = IF classic THEN "classic" ELSE ""]
    IN IF s1.state # state
       THEN LET r == IF state \notin {Present, Latest}
                     THEN Snap_remove(s1, ok)
                     ELSE Snap_install(s1, channel, ok)
            IN [self |-> IF r.err = "None" THEN [s1 EXCEPT !.state = state] ELSE s1,
                log |-> r.log, err |-> r.err]
       ELSE [self |-> s1, log |-> <<>>, err |-> "None"]

\* Snap.ensure comparing the states before it touches the confinement
Snap_ensure_compares_first(self, state, classic, channel, ok) ==
    IF self.state = state
    THEN [self |-> self, log |-> <<>>, err |-> "None"]
    ELSE LET s1 == [self EXCEPT !.confinement =
                       IF classic \/ self.confinement = "classic" THEN "classic" ELSE ""]
             r == IF state \notin {Present, Latest}
                  THEN Snap_remove(s1, ok)
                  ELSE Snap_install(s1, channel, ok)
         IN [self |-> IF r.err = "None" THEN [s1 EXCEPT !.state = state] ELSE s1,
             log |-> r.log, err |-> r.err]

\* Snap.ensure removing for Absent only
Snap_ensure_removes_absent_only(self, state, classic, channel, ok) ==
    LET s1 == [self EXCEPT !.confinement =
                  IF classic \/ self.confinement = "classic" THEN "classic" ELSE ""]
    IN IF s1.state # state
       THEN LET r == IF state = Absent
                     THEN Snap_remove(s1, ok)
                     ELSE Snap_install(s1, channel, ok)
            IN [self |-> IF r.err = "None" THEN [s1 EXCEPT !.state = state] ELSE s1,
                log |-> r.log, err |-> r.err]
       ELSE [self |-> s1, log |-> <<>>, err |-> "None"]

\* Snap.ensure setting the state before it runs the command
Snap_ensure_state_first(self, state, classic, channel, ok) ==
    LET s1 == [self EXCEPT !.confinement =
                  IF classic \/ self.confinement = "classic" THEN "classic" ELSE ""]
    IN IF s1.state # state
       THEN LET r == IF state \notin {Present, Latest}
                     THEN Snap_remove(s1, ok)
                     ELSE Snap_install(s1, channel, ok)
            IN [self |-> [s1 EXCEPT !.state = state], log |-> r.log, err |-> r.err]
       ELSE [self |-> s1, log |-> <<>>, err |-> "None"]

\* Snap.ensure leaving a confinement that is not classic as it is
Snap_ensure_keeps_confinement(self, state, classic, channel, ok) ==
    LET s1 == [self EXCEPT !.confinement = IF classic THEN "classic" ELSE @]
    IN IF s1.state # state
       THEN LET r == IF state \notin {Present, Latest}
                     THEN Snap_remove(s1, ok)
                     ELSE Snap_install(s1, channel, ok)
            IN [self |-> IF r.err = "None" THEN [s1 EXCEPT !.state = state] ELSE s1,
                log |-> r.log, err |-> r.err]
       ELSE [self |-> s1, log |-> <<>>, err |-> "None"]

\* Snap.ensure refreshing a snap that goes between Present and Latest
Snap_ensure_refreshes(self, state, classic, channel, ok) ==
    LET s1 == [self EXCEPT !.confinement =
                  IF classic \/ self.confinement = "classic" THEN "classic" ELSE ""]
    IN IF s1.state # state
       THEN LET r == IF state \notin {Present, Latest}
                     THEN Snap_remove(s1, ok)
                     ELSE IF s1.state \in {Present, Latest}
                     THEN Snap_refresh(s1, channel, ok)
                     ELSE Snap_install(s1, channel, ok)
            IN [self |-> IF r.err = "None" THEN [s1 EXCEPT !.state = state] ELSE s1,
                log |-> r.log, err |-> r.err]
       ELSE [self |-> s1, log |-> <<>>, err |-> "None"]

\* Snap.ensure: [self, log, err]
Snap_ensure(self, state, classic, channel, ok) ==
    LET s1 == [self EXCEPT !.confinement =
                  IF classic \/ self.confinement = "classic" THEN "classic" ELSE ""]
    IN IF s1.state # state
       THEN LET r == IF state \notin {Present, Latest}
                     THEN Snap_remove(s1, ok)
                     ELSE Snap_install(s1, channel, ok)
            IN [self |-> IF r.err = "None" THEN [s1 EXCEPT !.state = state] ELSE s1,
                log |-> r.log, err |-> r.err]
       ELSE [self |-> s1, log |-> <<>>, err |-> "None"]

\* the state setter assigning the state though ensure raised
Snap_state_setter_assigns_anyway(self, state, ok) ==
    LET r == IF self.state # state
             THEN Snap_ensure(self, state, FALSE, "", ok)
             ELSE [self |-> self, log |-> <<>>, err |-> "None"]
    IN [r EXCEPT !.self.state = state]

\* Snap.state setter: [self, log, err]
Snap_state_setter(self, state, ok) ==
    LET r == IF self.state # state
             THEN Snap_ensure(self, state, FALSE, "", ok)
             ELSE [self |-> self, log |-> <<>>, err |-> "None"]
    IN IF r.err = "None"
       THEN [r EXCEPT !.self.state = state]
       ELSE r

\* what a finished snap command does to the system
SystemAfter(inst, log, err) ==
    IF err # "None" \/ log = <<>> THEN inst
    ELSE LET c == log[Len(log)]
         IN CASE c[2] = "install" -> inst \cup {c[3]}
              [] c[2] = "remove" -> inst \ {c[3]}
              [] OTHER -> inst

----------------------------------------------------------------------------
(* SnapClient.  A reply is what the daemon socket does with one request:   *)
(* kind "ok" carries the decoded "result" list, "HTTPError" a non-2xx      *)
(* status code, "URLError" a connection-level failure.                     *)

RECURSIVE SetToSeq(_)
SetToSeq(S) ==
    IF S = {} THEN <<>>
    ELSE LET x == CHOOSE y \in S : TRUE IN <<x>> \o SetToSeq(S \ {x})

\* the replies snapd can give to GET snaps when inst is installed
SnapsReplies(inst) ==
    {[kind |-> "ok", code |-> 200, result |-> [i \in 1..Len(SetToSeq(inst)) |-> SnapInfo(SetToSeq(inst)[i])]],
     [kind |-> "HTTPError", code |-> 404, result |-> <<>>],
     [kind |-> "URLError", code |-> 0, result |-> <<>>]}

\* the replies snapd can give to GET find?name=<name>
FindReplies(name) ==
    {[kind |-> "ok", code |-> 200, result |-> <<SnapInfo(name)>>],
     [kind |-> "ok", code |-> 200, result |-> <<>>],
     [kind |-> "HTTPError", code |-> 404, result |-> <<>>],
     [kind |-> "URLError", code |-> 0, result |-> <<>>]}

\* SnapClient._request_raw / _request: [log, err, code, result]
SnapClient_request(path, reply) ==
    CASE reply.kind = "HTTPError" ->
            [log |-> <<path>>, err |-> "SnapAPIError", code |-> reply.code, result |-> <<>>]
      [] reply.kind = "URLError" ->
            [log |-> <<path>>, err |-> "SnapAPIError", code |-> 500, result |-> <<>>]
      [] OTHER ->
            [log |-> <<path>>, err |-> "None", code |-> 0, result |-> reply.result]

get_installed_snaps(reply) == SnapClient_request(<<"GET", "snaps">>, reply)

\* the [0] of an empty result list raises IndexError
get_snap_information(name, reply) ==
    LET r == SnapClient_request(<<"GET", "find", name>>, reply)
    IN IF r.err # "None" THEN r
       ELSE IF r.result = <<>> THEN [r EXCEPT !.err = "IndexError"]
       ELSE [r EXCEPT !.result = <<r.result[1]>>]

----------------------------------------------------------------------------
(* SnapCache *)

Whitespace == {" ", "\n"}

\* str.strip() of a line given as its sequence of characters
RECURSIVE LStrip(_)
LStrip(line) ==
    IF line # <<>> /\ Head(line) \in Whitespace THEN LStrip(Tail(line)) ELSE line

RECURSIVE RStrip(_)
RStrip(line) ==
    IF line # <<>> /\ line[Len(line)] \in Whitespace
    THEN RStrip(SubSeq(line, 1, Len(line) - 1)) ELSE line

RECURSIVE Join(_)
Join(chars) == IF chars = <<>> THEN "" ELSE Head(chars) \o Join(Tail(chars))

Strip(line) == Join(RStrip(LStrip(line)))

\* the key of m for a name, None when the entry is a placeholder
HasKey(m, name) == name \in DOMAIN m

\* SnapCache._load_available_snaps: [snap_map, log]
RECURSIVE LoadLines(_, _)
LoadLines(m, lines) ==
    IF lines = <<>> THEN m
    ELSE LoadLines(IF Strip(Head(lines)) # ""
                   THEN (Strip(Head(lines)) :> None) @@ m ELSE m,
                   Tail(lines))

SnapCache_load_available_snaps(m, file) ==
    IF file = NoFile
    THEN [snap_map |-> m, log |-> << <<"isfile", "/var/cache/snapd/names">> >>]
    ELSE [snap_map |-> LoadLines(m, file),
          log |-> << <<"isfile", "/var/cache/snapd/names">>,
                     <<"open", "/var/cache/snapd/names">> >>]

\* the loop of SnapCache._load_installed_snaps: [snap_map, heap]
RECURSIVE LoadInstalled(_, _, _)
LoadInstalled(m, h, result) ==
    IF result = <<>> THEN [snap_map |-> m, heap |-> h]
    ELSE LET i == Head(result)
             snap == Snap(i.name, Latest, i.channel, i.revision, i.confinement)
         IN LoadInstalled((snap.name :> (Len(h) + 1)) @@ m, Append(h, snap), Tail(result))

\* SnapCache._load_installed_snaps: [snap_map, heap, log, err, code]
SnapCache_load_installed_snaps(m, h, reply) ==
    LET r == get_installed_snaps(reply)
    IN IF r.err # "None"
       THEN [snap_map |-> m, heap |-> h, log |-> r.log, err |-> r.err, code |-> r.code]
       ELSE LET l == LoadInstalled(m, h, r.result)
            IN [snap_map |-> l.snap_map, heap |-> l.heap, log |-> r.log,
                err |-> "None", code |-> 0]

\* SnapCache.__init__ keeping the object when the installed snaps cannot be read
SnapCache_init_partial(bin, file, h, reply) ==
    IF ~bin
    THEN [ok |-> FALSE, snap_map |-> <<>>, heap |-> h,
          log |-> << <<"isfile", "/usr/bin/snap">> >>,
          err |-> "SnapError", code |-> 0]
    ELSE LET a == SnapCache_load_available_snaps(<<>>, file)
             b == SnapCache_load_installed_snaps(a.snap_map, h, reply)
             log == << <<"isfile", "/usr/bin/snap">>, <<"isfile", "/usr/bin/snap">> >>
                    \o a.log \o b.log
         IN [ok |-> TRUE, snap_map |-> b.snap_map, heap |-> b.heap, log |-> log,
             err |-> "None", code |-> 0]

\* SnapCache.__init__ loading the installed snaps before the index file
SnapCache_init_installed_first(bin, file, h, reply) ==
    IF ~bin
    THEN [ok |-> FALSE, snap_map |-> <<>>, heap |-> h,
          log |-> << <<"isfile", "/usr/bin/snap">> >>,
          err |-> "SnapError", code |-> 0]
    ELSE LET b == SnapCache_load_installed_snaps(<<>>, h, reply)
             a == SnapCache_load_available_snaps(b.snap_map, file)
             log == << <<"isfile", "/usr/bin/snap">>, <<"isfile", "/usr/bin/snap">> >>
                    \o a.log \o b.log
         IN IF b.err # "None"
            THEN [ok |-> FALSE, snap_map |-> <<>>, heap |-> h, log |-> log,
                  err |-> b.err, code |-> b.code]
            ELSE [ok |-> TRUE, snap_map |-> a.snap_map, heap |-> b.heap, log |-> log,
                  err |-> "None", code |-> 0]

\* SnapCache.__init__: [ok, snap_map, heap, log, err, code]
\* ok is whether the constructor returned an object
SnapCache_init(bin, file, h, reply) ==
    IF ~bin
    THEN [ok |-> FALSE, snap_map |-> <<>>, heap |-> h,
          log |-> << <<"isfile", "/usr/bin/snap">> >>,
          err |-> "SnapError", code |-> 0]
    ELSE LET a == SnapCache_load_available_snaps(<<>>, file)
             b == SnapCache_load_installed_snaps(a.snap_map, h, reply)
             log == << <<"isfile", "/usr/bin/snap">>, <<"isfile", "/usr/bin/snap">> >>
                    \o a.log \o b.log
         IN IF b.err # "None"
            THEN [ok |-> FALSE, snap_map |-> <<>>, heap |-> h, log |-> log,
                  err |-> b.err, code |-> b.code]
            ELSE [ok |-> TRUE, snap_map |-> b.snap_map, heap |-> b.heap, log |-> log,
                  err |-> "None", code |-> 0]

\* SnapCache._load_info: [snap, log, err]
SnapCache_load_info(name, reply) ==
    LET r == get_snap_information(name, reply)
    IN IF r.err # "None"
       THEN [snap |-> <<>>, log |-> r.log, err |-> r.err]
       ELSE LET info == r.result[1]
            IN [snap |-> <<Snap(info.name, Available, info.channel,
                               info.revision, info.confinement)>>,
                log |-> r.log, err |-> "None"]

\* SnapCache.__getitem__ loading the snap whatever the map holds
SnapCache_getitem_reload(m, h, snap_name, reply) ==
    LET l == SnapCache_load_info(snap_name, reply)
    IN CASE l.err = "SnapAPIError" ->
              [snap_map |-> m, heap |-> h, log |-> l.log,
               err |-> "SnapNotFoundError", ret |-> None]
         [] l.err # "None" ->
              [snap_map |-> m, heap |-> h, log |-> l.log, err |-> l.err, ret |-> None]
         [] OTHER ->
              [snap_map |-> (snap_name :> (Len(h) + 1)) @@ m,
               heap |-> Append(h, l.snap[1]), log |-> l.log,
               err |-> "None", ret |-> Len(h) + 1]

\* SnapCache.__getitem__ returning the loaded snap without storing it
SnapCache_getitem_unstored(m, h, snap_name, reply) ==
    LET snap == IF HasKey(m, snap_name) THEN m[snap_name] ELSE None
    IN IF snap = None
       THEN LET l == SnapCache_load_info(snap_name, reply)
            IN CASE l.err = "SnapAPIError" ->
                      [snap_map |-> m, heap |-> h, log |-> l.log,
                       err |-> "SnapNotFoundError", ret |-> None]
                 [] l.err # "None" ->
                      [snap_map |-> m, heap |-> h, log |-> l.log,
                       err |-> l.err, ret |-> None]
                 [] OTHER ->
                      [snap_map |-> m, heap |-> Append(h, l.snap[1]), log |-> l.log,
                       err |-> "None", ret |-> Len(h) + 1]
       ELSE [snap_map |-> m, heap |-> h, log |-> <<>>, err |-> "None", ret |-> snap]

\* SnapCache.__getitem__ leaving a placeholder for a name whose load failed
SnapCache_getitem_remembers(m, h, snap_name, reply) ==
    LET snap == IF HasKey(m, snap_name) THEN m[snap_name] ELSE None
    IN IF snap = None
       THEN LET l == SnapCache_load_info(snap_name, reply)
            IN CASE l.err = "SnapAPIError" ->
                      [snap_map |-> (snap_name :> None) @@ m, heap |-> h, log |-> l.log,
                       err |-> "SnapNotFoundError", ret |-> None]
                 [] l.err # "None" ->
                      [snap_map |-> (snap_name :> None) @@ m, heap |-> h, log |-> l.log,
                       err |-> l.err, ret |-> None]
                 [] OTHER ->
                      [snap_map |-> (snap_name :> (Len(h) + 1)) @@ m,
                       heap |-> Append(h, l.snap[1]), log |-> l.log,
                       err |-> "None", ret |-> Len(h) + 1]
       ELSE [snap_map |-> m, heap |-> h, log |-> <<>>, err |-> "None", ret |-> snap]

\* SnapCache.__getitem__: [snap_map, heap, log, err, ret]
SnapCache_getitem(m, h, snap_name, reply) ==
    LET snap == IF HasKey(m, snap_name) THEN m[snap_name] ELSE None
    IN IF snap = None
       THEN LET l == SnapCache_load_info(snap_name, reply)
            IN CASE l.err = "SnapAPIError" ->
                      [snap_map |-> m, heap |-> h, log |-> l.log,
                       err |-> "SnapNotFoundError", ret |-> None]
                 [] l.err # "None" ->
                      [snap_map |-> m, heap |-> h, log |-> l.log,
                       err |-> l.err, ret |-> None]
                 [] OTHER ->
                      [snap_map |-> (snap_name :> (Len(h) + 1)) @@ m,
                       heap |-> Append(h, l.snap[1]), log |-> l.log,
                       err |-> "None", ret |-> Len(h) + 1]
       ELSE [snap_map |-> m, heap |-> h, log |-> <<>>, err |-> "None", ret |-> snap]

----------------------------------------------------------------------------
(* The bare functions.  A batch state w is [cache, snap_map, heap,          *)
(* installed, log, success, failed, caught, err]: cache is whether the     *)
(* singleton is set, caught is the exception each iteration of the loop    *)
(* ended with ("None" for none), err the exception that left the loop.     *)

\* the replies that decide a lookup of s: none is asked for when the map
\* holds a Snap for s
RepliesFor(m, s) ==
    IF HasKey(m, s) /\ m[s] # None
    THEN {[kind |-> "ok", code |-> 200, result |-> <<>>]}
    ELSE FindReplies(s)

\* the exit statuses that decide snap.ensure(state): none is waited for when
\* the Snap is in that state
StatusesFor(snap, state) == IF snap.state = state THEN {TRUE} ELSE BOOLEAN

\* the iteration handing classic and channel to snap.ensure for Absent too
wrap_iteration_passes_options(w, s, state, channel, classic) ==
    UNION {
      LET g == SnapCache_getitem(w.snap_map, w.heap, s, reply)
      IN CASE g.err = "SnapNotFoundError" ->
                { [w EXCEPT !.log = @ \o g.log,
                            !.failed = Append(@, s),
                            !.caught = Append(@, g.err)] }
           [] g.err # "None" ->
                { [w EXCEPT !.log = @ \o g.log, !.err = g.err] }
           [] OTHER ->
                { LET e == Snap_ensure(g.heap[g.ret], state, classic, channel, ok)
                  IN [w EXCEPT !.snap_map = g.snap_map,
                               !.heap = [g.heap EXCEPT ![g.ret] = e.self],
                               !.installed = SystemAfter(@, e.log, e.err),
                               !.log = @ \o g.log \o e.log,
                               !.success = IF e.err = "None" THEN Append(@, g.ret) ELSE @,
                               !.failed = IF e.err = "None" THEN @ ELSE Append(@, s),
                               !.caught = Append(@, e.err)]
                  : ok \in StatusesFor(g.heap[g.ret], state) }
      : reply \in RepliesFor(w.snap_map, s) }

\* one iteration of the for loop of _wrap_snap_operations, for every reply
\* of the daemon and every exit status of the command: a set of batch states
wrap_iteration(w, s, state, channel, classic) ==
    UNION {
      LET g == SnapCache_getitem(w.snap_map, w.heap, s, reply)
      IN CASE g.err = "SnapNotFoundError" ->
                { [w EXCEPT !.log = @ \o g.log,
                            !.failed = Append(@, s),
                            !.caught = Append(@, g.err)] }
           [] g.err # "None" ->
                { [w EXCEPT !.log = @ \o g.log, !.err = g.err] }
           [] OTHER ->
                { LET e == IF state = Absent
                           THEN Snap_ensure(g.heap[g.ret], Absent, FALSE, "", ok)
                           ELSE Snap_ensure(g.heap[g.ret], state, classic, channel, ok)
                  IN [w EXCEPT !.snap_map = g.snap_map,
                               !.heap = [g.heap EXCEPT ![g.ret] = e.self],
                               !.installed = SystemAfter(@, e.log, e.err),
                               !.log = @ \o g.log \o e.log,
                               !.success = IF e.err = "None" THEN Append(@, g.ret) ELSE @,
                               !.failed = IF e.err = "None" THEN @ ELSE Append(@, s),
                               !.caught = Append(@, e.err)]
                  : ok \in StatusesFor(g.heap[g.ret], state) }
      : reply \in RepliesFor(w.snap_map, s) }

\* the for loop of _wrap_snap_operations: the set of batch states it can end in
RECURSIVE wrap_loop(_, _, _, _, _)
wrap_loop(w, snap_names, state, channel, classic) ==
    IF snap_names = <<>> \/ w.err # "None" THEN {w}
    ELSE UNION { wrap_loop(w2, Tail(snap_names), state, channel, classic)
                 : w2 \in wrap_iteration(w, Head(snap_names), state, channel, classic) }

\* what a call of a bare function leaves: the batch state and what the caller
\* sees, [w, err, raised, code, names, ret, shape]
\* names are the snap names the exception's message lists
Outcome(w, err, raised, code, ret, shape) ==
    [w |-> w, err |-> err, raised |-> raised, code |-> code, names |-> <<>>,
     ret |-> ret, shape |-> shape]

\* _wrap_snap_operations raising only when no snap succeeded
wrap_snap_operations_any_success(w0, snap_names, state, channel, classic) ==
    { CASE w.err # "None" ->
             Outcome(w, w.err, "get_snap_information", 0, <<>>, "none")
        [] Len(w.success) = 0 ->
             [Outcome(w, "SnapError", "_wrap_snap_operations", 0, <<>>, "none")
                EXCEPT !.names = w.failed]
        [] Len(w.success) > 1 ->
             Outcome(w, "None", "", 0, w.success, "list")
        [] OTHER ->
             Outcome(w, "None", "", 0, <<w.success[1]>>, "Snap")
      : w \in wrap_loop(w0, snap_names, state, channel, classic) }

\* _wrap_snap_operations returning the success list whatever its length
wrap_snap_operations_always_list(w0, snap_names, state, channel, classic) ==
    { CASE w.err # "None" ->
             Outcome(w, w.err, "get_snap_information", 0, <<>>, "none")
        [] Len(w.failed) > 0 ->
             [Outcome(w, "SnapError", "_wrap_snap_operations", 0, <<>>, "none")
                EXCEPT !.names = w.failed]
        [] OTHER ->
             Outcome(w, "None", "", 0, w.success, "list")
      : w \in wrap_loop(w0, snap_names, state, channel, classic) }

\* _wrap_snap_operations: the set of outcomes
wrap_snap_operations(w0, snap_names, state, channel, classic) ==
    { CASE w.err # "None" ->
             Outcome(w, w.err, "get_snap_information", 0, <<>>, "none")
        [] Len(w.failed) > 0 ->
             [Outcome(w, "SnapError", "_wrap_snap_operations", 0, <<>>, "none")
                EXCEPT !.names = w.failed]
        [] Len(w.success) > 1 ->
             Outcome(w, "None", "", 0, w.success, "list")
        [] OTHER ->
             Outcome(w, "None", "", 0, <<w.success[1]>>, "Snap")
      : w \in wrap_loop(w0, snap_names, state, channel, classic) }

\* the batch state a call starts from
BatchState(c, m, h, inst, log) ==
    [cache |-> c, snap_map |-> m, heap |-> h, installed |-> inst, log |-> log,
     success |-> <<>>, failed |-> <<>>, caught |-> <<>>, err |-> "None"]

\* _cache_init constructing a SnapCache at every call
cache_init_every_call ==
    { SnapCache_init(snapd_bin, names_file, heap, reply)
      : reply \in SnapsReplies(installed) }

\* _cache_init: the constructions of the singleton the decorator can make,
\* [ok, snap_map, heap, log, err, code]
cache_init ==
    IF cache
    THEN { [ok |-> TRUE, snap_map |-> snap_map, heap |-> heap, log |-> <<>>,
            err |-> "None", code |-> 0] }
    ELSE { SnapCache_init(snapd_bin, names_file, heap, reply)
           : reply \in SnapsReplies(installed) }

\* the body of add, after the decorator: the set of outcomes
add_body(w0, snap_names, state, channel, classic) ==
    IF snap_names = <<>>
    THEN { Outcome(w0, "TypeError", "add", 0, <<>>, "none") }
    ELSE IF state \notin SnapState /\ SnapStateOf(state) = "ValueError"
    THEN { Outcome(w0, "ValueError", "add", 0, <<>>, "none") }
    ELSE wrap_snap_operations(w0, snap_names,
                              IF state \in SnapState THEN state ELSE SnapStateOf(state),
                              channel, classic)

\* the body of remove, after the decorator
remove_body(w0, snap_names) ==
    IF snap_names = <<>>
    THEN { Outcome(w0, "TypeError", "remove", 0, <<>>, "none") }
    ELSE wrap_snap_operations(w0, snap_names, Absent, "", FALSE)

\* inner of _cache_init once the singleton c is there: the batch state the
\* decorated function starts from
Constructed(c) == BatchState(TRUE, c.snap_map, c.heap, installed, c.log)

\* inner of _cache_init when SnapCache() raised: the exception reaches the
\* caller and the function is not run
NotConstructed(c) ==
    Outcome(BatchState(cache, snap_map, heap, installed, c.log),
            c.err, "SnapCache.__init__", c.code, <<>>, "none")

add(snap_names, state, channel, classic) ==
    UNION { IF c.ok
            THEN add_body(Constructed(c), snap_names, state, channel, classic)
            ELSE { NotConstructed(c) }
            : c \in cache_init }

remove(snap_names) ==
    UNION { IF c.ok
            THEN remove_body(Constructed(c), snap_names)
            ELSE { NotConstructed(c) }
            : c \in cache_init }

\* ensure validating its state as add does, and removing for "absent" only
ensure_validates(snap_names, state, channel, classic) ==
    UNION { IF c.ok
            THEN IF state \in {"present", "latest"}
                 THEN add_body(Constructed(c), snap_names, SnapStateOf(state),
                               channel, classic)
                 ELSE IF state = "absent"
                 THEN remove_body(Constructed(c), snap_names)
                 ELSE { Outcome(Constructed(c), "ValueError", "ensure", 0, <<>>, "none") }
            ELSE { NotConstructed(c) }
            : c \in cache_init }

\* ensure: add and remove are the decorated functions, whose decorators find
\* the singleton already constructed
ensure(snap_names, state, channel, classic) ==
    UNION { IF c.ok
            THEN IF state \in {"present", "latest"}
                 THEN add_body(Constructed(c), snap_names, SnapStateOf(state),
                               channel, classic)
                 ELSE remove_body(Constructed(c), snap_names)
            ELSE { NotConstructed(c) }
            : c \in cache_init }

----------------------------------------------------------------------------
(* The state machine *)

\* the arguments callers pass
NameLists == UNION { [1..n -> Names] : n \in 0..MaxBatch }
AddStates == SnapState \cup {"present", "bogus"}
EnsureStates == {"present", "latest", "absent"}
Files == {NoFile} \cup UNION { [1..n -> FileLines] : n \in 0..MaxFileLines }

\* the commands and the daemon requests of a log
IsCmd(e) == e[1] = "snap"
IsRequest(e) == e[1] = "GET"
Cmds(log) == SelectSeq(log, IsCmd)
Requests(log) == SelectSeq(log, IsRequest)

\* what the daemon did with the one request of a cache lookup or construction
ReplyTag(reply, log) ==
    CASE Requests(log) = <<>> -> ""
      [] reply.kind = "ok" /\ reply.result = <<>> -> "200 []"
      [] reply.kind = "ok" -> "200"
      [] OTHER -> reply.kind

\* the record of a call: the function or method, its snap_names or the Snap
\* it is called on, the state asked for, opts = <<classic, channel>> of a
\* Snap.ensure or an ensure (those of add show in the commands of its log),
\* the I/O it performed in order, what its caller got back, and
\*   reply: what the daemon did with the request of a lookup or construction
\*   again: for a Snap.ensure that repeats the call before it (same Snap, same
\*          arguments), <<err, number of commands>> of that call
Call(op, snap_names, self, state, opts, o, reply) ==
    [op |-> op, snap_names |-> snap_names, self |-> self, state |-> state,
     opts |-> opts,
     err |-> o.err, raised |-> o.raised, code |-> o.code, names |-> o.names,
     ret |-> o.ret, shape |-> o.shape,
     log |-> o.w.log, caught |-> o.w.caught, reply |-> reply,
     again |-> IF op = "Snap.ensure" /\ last.op = op /\ last.self = self
                  /\ last.state = state /\ last.opts = opts
               THEN <<last.err, Len(Cmds(last.log))>> ELSE <<>>]

NoCall ==
    [op |-> "", snap_names |-> <<>>, self |-> None, state |-> "", opts |-> <<>>,
     err |-> "None", raised |-> "", code |-> 0, names |-> <<>>,
     ret |-> <<>>, shape |-> "none",
     log |-> <<>>, caught |-> <<>>, reply |-> "", again |-> <<>>]

Init ==
    /\ snapd_bin \in BOOLEAN
    /\ names_file \in Files
    /\ installed \in SUBSET Names
    /\ cache = FALSE
    /\ snap_map = <<>>
    /\ heap = <<>>
    /\ last = NoCall

\* the process state after a bare function's outcome
Returns(o) ==
    /\ cache' = o.w.cache
    /\ snap_map' = o.w.snap_map
    /\ heap' = o.w.heap
    /\ installed' = o.w.installed
    /\ UNCHANGED <<snapd_bin, names_file>>

Add(snap_names, state, channel, classic) ==
    \E o \in add(snap_names, state, channel, classic) :
        /\ Returns(o)
        /\ last' = Call("add", snap_names, None, state, <<>>, o, "")

Remove(snap_names) ==
    \E o \in remove(snap_names) :
        /\ Returns(o)
        /\ last' = Call("remove", snap_names, None, "", <<>>, o, "")

Ensure(snap_names, state, channel, classic) ==
    \E o \in ensure(snap_names, state, channel, classic) :
        /\ Returns(o)
        /\ last' = Call("ensure", snap_names, None, state, <<classic, channel>>, o, "")

\* cache[snap_name]
GetItem(snap_name) ==
    /\ cache
    /\ \E reply \in RepliesFor(snap_map, snap_name) :
        LET g == SnapCache_getitem(snap_map, heap, snap_name, reply)
            w == [BatchState(cache, g.snap_map, g.heap, installed, g.log)
                    EXCEPT !.err = g.err]
            o == IF g.err = "None"
                 THEN Outcome(w, "None", "", 0, <<g.ret>>, "Snap")
                 ELSE Outcome(w, g.err, "SnapCache.__getitem__", 0, <<>>, "none")
        IN /\ Returns(o)
           /\ last' = Call("getitem", <<snap_name>>, None, "", <<>>, o,
                           ReplyTag(reply, g.log))

\* snap.ensure(state, classic, channel) on a Snap object the caller holds
SnapEnsure(self, state, classic, channel) ==
    /\ self \in 1..Len(heap)
    /\ \E ok \in StatusesFor(heap[self], state) :
        LET e == Snap_ensure(heap[self], state, classic, channel, ok)
            w == [BatchState(cache, snap_map, [heap EXCEPT ![self] = e.self],
                             SystemAfter(installed, e.log, e.err), e.log)
                    EXCEPT !.err = e.err]
            o == Outcome(w, e.err, IF e.err = "None" THEN "" ELSE "Snap._snap", 0, <<>>, "none")
        IN /\ Returns(o)
           /\ last' = Call("Snap.ensure", <<>>, self, state, <<classic, channel>>, o, "")

\* snap.state = state on a Snap object the caller holds
SetState(self, state) ==
    /\ self \in 1..Len(heap)
    /\ \E ok \in StatusesFor(heap[self], state) :
        LET e == Snap_state_setter(heap[self], state, ok)
            w == [BatchState(cache, snap_map, [heap EXCEPT ![self] = e.self],
                             SystemAfter(installed, e.log, e.err), e.log)
                    EXCEPT !.err = e.err]
            o == Outcome(w, e.err, IF e.err = "None" THEN "" ELSE "Snap._snap", 0, <<>>, "none")
        IN /\ Returns(o)
           /\ last' = Call("Snap.state", <<>>, self, state, <<>>, o, "")

\* cache = SnapCache(): a client constructs the cache it then uses
NewCache ==
    /\ ~cache
    /\ \E reply \in SnapsReplies(installed) :
        LET c == SnapCache_init(snapd_bin, names_file, heap, reply)
            w == [BatchState(c.ok, c.snap_map, c.heap, installed, c.log)
                    EXCEPT !.err = c.err]
            o == Outcome(w, c.err, IF c.ok THEN "" ELSE "SnapCache.__init__",
                         c.code, <<>>, "none")
        IN /\ Returns(o)
           /\ last' = Call("SnapCache", <<>>, None, "", <<>>, o, ReplyTag(reply, c.log))

\* the bare functions, which share the singleton cache
InitBare ==
    /\ Init
    /\ names_file = << <<"a", "\n">> >>

Next ==
    \/ \E snap_names \in NameLists, state \in AddStates,
          channel \in Channels, classic \in BOOLEAN :
           Add(snap_names, state, channel, classic)
    \/ \E snap_names \in NameLists : Remove(snap_names)

Spec == InitBare /\ [][Next]_vars

\* the top-level ensure
NextEnsure ==
    \/ \E snap_names \in NameLists, state \in EnsureStates,
          channel \in Channels, classic \in BOOLEAN :
           Ensure(snap_names, state, channel, classic)
    \/ \E snap_names \in NameLists : Remove(snap_names)

SpecEnsure == InitBare /\ [][NextEnsure]_vars

\* the top-level ensure called with states of every kind: a string add takes,
\* the value of a member add does not take, a string that is no value, a member
DispatchStates == {"latest", "available", "bogus", Latest}

InitDispatch ==
    /\ InitBare
    /\ snapd_bin

NextDispatch ==
    \E snap_names \in NameLists, state \in DispatchStates,
       channel \in Channels, classic \in BOOLEAN :
        Ensure(snap_names, state, channel, classic)

SpecDispatch == InitDispatch /\ [][NextDispatch]_vars

\* a cache and its lookups
NextCache ==
    \/ NewCache
    \/ \E snap_name \in Names : GetItem(snap_name)

SpecCache == Init /\ [][NextCache]_vars

\* a cache, its lookups and the Snap objects it hands out
InitSnap ==
    /\ Init
    /\ snapd_bin
    /\ names_file = NoFile

NextSnap ==
    \/ NewCache
    \/ \E snap_name \in Names : GetItem(snap_name)
    \/ \E self \in 1..Len(heap), state \in SnapState,
          classic \in BOOLEAN, channel \in Channels :
           SnapEnsure(self, state, classic, channel)
    \/ \E self \in 1..Len(heap), state \in SnapState : SetState(self, state)

SpecSnap == InitSnap /\ [][NextSnap]_vars

TypeOK ==
    /\ cache \in BOOLEAN
    /\ installed \subseteq Names
    /\ DOMAIN snap_map \subseteq Names
    /\ \A n \in DOMAIN snap_map : snap_map[n] \in 0..Len(heap)
    /\ \A i \in 1..Len(heap) : heap[i].state \in SnapState

----------------------------------------------------------------------------
(* Properties *)

BareOps == {"add", "remove", "ensure"}

\* the map holds a Snap for name
Populated(m, name) == HasKey(m, name) /\ m[name] # None

\* the names of the positions whose iteration ended with an exception
RECURSIVE NamesCaught(_, _)
NamesCaught(snap_names, caught) ==
    IF snap_names = <<>> \/ caught = <<>> THEN <<>>
    ELSE (IF Head(caught) # "None" THEN <<Head(snap_names)>> ELSE <<>>)
         \o NamesCaught(Tail(snap_names), Tail(caught))

Range(seq) == { seq[i] : i \in 1..Len(seq) }

\* C1 as stated: a Snap.ensure that repeats the call before it (same Snap,
\* same state, classic and channel) makes the two calls issue at most one
\* command together, issues none itself and changes no field of any Snap.
C1_EnsureTwice ==
    [][ (last'.op = "Snap.ensure" /\ last'.again # <<>>)
        => /\ last'.again[2] + Len(Cmds(last'.log)) <= 1
           /\ last'.log = <<>>
           /\ last'.err = "None"
           /\ heap' = heap ]_vars

\* C1 amended: when the first of the two identical calls raised nothing, the
\* two calls issue at most one command together and the second issues none,
\* raises nothing and changes no field of any Snap.
C1_EnsureTwiceAfterSuccess ==
    [][ (last'.op = "Snap.ensure" /\ last'.again # <<>> /\ last'.again[1] = "None")
        => /\ last'.again[2] + Len(Cmds(last'.log)) <= 1
           /\ last'.log = <<>>
           /\ last'.err = "None"
           /\ heap' = heap ]_vars

\* the second of two identical calls did nothing after the first ran a command
C1_Witness ==
    /\ last.op = "Snap.ensure"
    /\ last.again = <<"None", 1>>
    /\ last.log = <<>>

\* C2: a Snap.ensure called with classic=true leaves the confinement
\* "classic", whether its command succeeds or not, and no step of any call
\* takes a Snap's confinement away from "classic".
C2_ConfinementMonotone ==
    [][ \A i \in 1..Len(heap') :
          (\/ i <= Len(heap) /\ heap[i].confinement = "classic"
           \/ last'.op = "Snap.ensure" /\ last'.self = i /\ last'.opts[1])
          => heap'[i].confinement = "classic" ]_vars

\* snap a, which snapd reports strict, is classic after an ensure(classic=false)
C2_Witness ==
    /\ last.op = "Snap.ensure"
    /\ ~last.opts[1]
    /\ heap[last.self].name = "a"
    /\ heap[last.self].confinement = "classic"

\* C3: a name the map holds a Snap for keeps that very object; a lookup of
\* it returns that object and touches no Snap; a successful Snap.ensure
\* leaves the state asked for in the object the map holds.
C3_CacheConsistency ==
    [][ /\ \A n \in DOMAIN snap_map :
              snap_map[n] # None => HasKey(snap_map', n) /\ snap_map'[n] = snap_map[n]
        /\ (last'.op = "getitem" /\ Populated(snap_map, last'.snap_names[1]))
           => /\ last'.err = "None"
              /\ last'.ret = <<snap_map[last'.snap_names[1]]>>
              /\ heap' = heap
        /\ (last'.op = "Snap.ensure" /\ last'.err = "None")
           => heap'[last'.self].state = last'.state ]_vars

\* a lookup returned, without loading, a Snap in a state only ensure gives
C3_Witness ==
    /\ last.op = "getitem"
    /\ last.err = "None"
    /\ last.log = <<>>
    /\ heap[last.ret[1]].state = Absent

\* C4: a lookup whose find request the daemon answers with no match (an
\* empty result list or an HTTP error) raises SnapNotFoundError.
C4_NotFoundTranslation ==
    (last.op = "getitem" /\ last.reply \in {"200 []", "HTTPError"})
    => last.err = "SnapNotFoundError"

\* C5: when the loop of a batch has gone through every name, the batch
\* raises the SnapError of _wrap_snap_operations exactly when some iteration
\* ended with an exception, the error lists the names of exactly those
\* iterations, in order, and it lists no name whose only iteration succeeded.
C5_AggregateReporting ==
    (/\ last.op \in BareOps
     /\ last.snap_names # <<>>
     /\ Len(last.caught) = Len(last.snap_names))
    => /\ (last.err = "SnapError" /\ last.raised = "_wrap_snap_operations")
          <=> (\E i \in 1..Len(last.caught) : last.caught[i] # "None")
       /\ last.err \in {"None", "SnapError"}
       /\ last.names = NamesCaught(last.snap_names, last.caught)
       /\ \A i \in 1..Len(last.caught) :
             (/\ last.caught[i] = "None"
              /\ \A j \in 1..Len(last.snap_names) :
                    last.snap_names[j] = last.snap_names[i] => j = i)
             => last.snap_names[i] \notin Range(last.names)

\* a batch of two names, the first ensured, the second failed, raised
C5_Witness ==
    /\ last.op = "add"
    /\ Len(last.snap_names) = 2
    /\ last.caught = <<"None", "SnapError">>
    /\ last.err = "SnapError"
    /\ last.names = <<last.snap_names[2]>>

\* the iteration of position j failed: it ended with an exception the loop
\* caught, or with one that left the loop
FailedAt(j) ==
    \/ j <= Len(last.caught) /\ last.caught[j] # "None"
    \/ j = Len(last.caught) + 1 /\ last.raised = "get_snap_information"

\* C6: in a batch, whenever the iteration of one name fails, every other
\* name of the batch is still looked up and ensured.
C6_BestEffort ==
    last.op \in BareOps
    => \A i \in 1..Len(last.snap_names) :
          (\E j \in 1..Len(last.snap_names) :
              last.snap_names[j] # last.snap_names[i] /\ FailedAt(j))
          => i <= Len(last.caught)

\* C7: add and remove called with an empty list raise TypeError having done
\* no I/O at all.
C7_ValidationBeforeIO ==
    (last.op \in {"add", "remove"} /\ last.snap_names = <<>>)
    => (last.err = "TypeError" /\ last.log = <<>>)

\* C8: right after construction every installed snap is in the map with
\* state Latest; a lookup of a name the map holds a Snap for makes no
\* request and returns that Snap (state Latest for an installed one); a
\* lookup of a placeholder or unknown name makes exactly one request, GET
\* find for that name, and when it succeeds stores and returns a Snap with
\* state Available; a name the map holds a Snap for keeps it.
C8_ReadThrough ==
    [][ /\ (last'.op = "SnapCache" /\ cache')
           => \A n \in installed :
                 Populated(snap_map', n) /\ heap'[snap_map'[n]].state = Latest
        /\ \A n \in Names : Populated(snap_map, n) => Populated(snap_map', n)
        /\ last'.op = "getitem"
           => LET n == last'.snap_names[1]
              IN IF Populated(snap_map, n)
                 THEN /\ last'.log = <<>>
                      /\ last'.ret = <<snap_map[n]>>
                      /\ n \in installed => heap'[last'.ret[1]].state = Latest
                 ELSE /\ last'.log = << <<"GET", "find", n>> >>
                      /\ last'.err = "None"
                         => /\ Populated(snap_map', n)
                            /\ last'.ret = <<snap_map'[n]>>
                            /\ heap'[snap_map'[n]].state = Available ]_vars

\* a lookup returned, without a request, a Snap that an earlier lookup loaded
C8_Witness ==
    /\ last.op = "getitem"
    /\ last.log = <<>>
    /\ last.err = "None"
    /\ heap[last.ret[1]].state = Available

\* C9: no call of a bare function ends with a SnapAPIError.
C9_NoTransportError ==
    last.op \in BareOps => last.err # "SnapAPIError"

\* C10: when the daemon socket is unreachable for GET snaps, the
\* construction raises SnapAPIError with code 500 and there is no cache, not
\* even one holding the placeholders of the index file.
C10_ConstructionFails ==
    (last.op = "SnapCache" /\ last.reply = "URLError")
    => /\ last.err = "SnapAPIError"
       /\ last.code = 500
       /\ ~cache
       /\ DOMAIN snap_map = {}

\* a construction met an unreachable socket after reading a name from the index
C10_Witness ==
    /\ last.op = "SnapCache"
    /\ last.reply = "URLError"
    /\ last.err = "SnapAPIError"
    /\ names_file # NoFile
    /\ DOMAIN LoadLines(<<>>, names_file) # {}

\* C11: a batch whose iterations all succeeded returns the one Snap when one
\* name was given, and otherwise the list of the Snaps the map holds for the
\* names given, one per name and in their order.
C11_ResultShape ==
    (/\ last.op \in BareOps
     /\ last.snap_names # <<>>
     /\ last.err = "None")
    => /\ Len(last.ret) = Len(last.snap_names)
       /\ \A i \in 1..Len(last.snap_names) :
             /\ last.ret[i] = snap_map[last.snap_names[i]]
             /\ heap[last.ret[i]].name = last.snap_names[i]
       /\ last.shape = IF Len(last.snap_names) = 1 THEN "Snap" ELSE "list"

\* add returned the list of the two Snaps of a batch of two different names
C11_Witness ==
    /\ last.op = "add"
    /\ last.err = "None"
    /\ Len(last.snap_names) = 2
    /\ last.snap_names[1] # last.snap_names[2]
    /\ last.shape = "list"
    /\ Len(last.ret) = 2

\* the I/O only SnapCache.__init__ performs
IsConstruction(e) == e[1] \in {"isfile", "open"} \/ e = <<"GET", "snaps">>

\* C12: there is no cache before the first call of a bare function, which
\* starts by constructing it; once a construction has succeeded no call
\* constructs again: the singleton stays, every name keeps its key and every
\* Snap its identity, and a call finds the Snaps as the calls before left them
\* (a remove of names whose Snaps are Absent does nothing).
C12_SingleCache ==
    /\ [](~cache => snap_map = <<>> /\ heap = <<>>)
    /\ [][ /\ (~cache /\ last'.op \in BareOps)
              => /\ last'.log # <<>>
                 /\ last'.log[1] = <<"isfile", "/usr/bin/snap">>
           /\ cache
              => /\ cache'
                 /\ SelectSeq(last'.log, IsConstruction) = <<>>
                 /\ Len(heap') >= Len(heap)
                 /\ \A n \in DOMAIN snap_map :
                       /\ HasKey(snap_map', n)
                       /\ snap_map[n] # None => snap_map'[n] = snap_map[n]
                 /\ (/\ last'.op = "remove"
                     /\ last'.snap_names # <<>>
                     /\ \A n \in Range(last'.snap_names) :
                           Populated(snap_map, n) /\ heap[snap_map[n]].state = Absent)
                    => last'.log = <<>> /\ last'.err = "None" /\ heap' = heap ]_vars

\* a remove found both Snaps Absent, as earlier calls left them, and did no I/O
C12_Witness ==
    /\ cache
    /\ last.op = "remove"
    /\ Range(last.snap_names) = Names
    /\ last.log = <<>>
    /\ last.err = "None"
    /\ \A n \in Names : heap[snap_map[n]].state = Absent

\* an ensure reconciles one snap that is not installed to latest or present,
\* with a channel and classic=false: the lookup gave its Snap
ReconcilesOne ==
    /\ last'.op = "ensure"
    /\ Len(last'.snap_names) = 1
    /\ last'.snap_names[1] \notin installed
    /\ last'.state \in {"latest", "present"}
    /\ ~last'.opts[1]
    /\ last'.opts[2] # ""
    /\ last'.caught \in {<<"None">>, <<"SnapError">>}

\* what that call does when it issues the one command cmd: on success it
\* returns the one Snap, in the state asked for
ReconciledBy(cmd) ==
    /\ Cmds(last'.log) = <<cmd>>
    /\ last'.err = "None"
       => /\ last'.shape = "Snap"
          /\ last'.ret = <<snap_map'[last'.snap_names[1]]>>
          /\ heap'[last'.ret[1]].state = SnapStateOf(last'.state)

\* the confinement the Snap of a name has when a call starts, which is what
\* snapd's find reports when the name is still to be looked up
PriorConfinement(n) ==
    IF Populated(snap_map, n) THEN heap[snap_map[n]].confinement
    ELSE SnapInfo(n).confinement

\* C13 as stated: that call issues exactly one command, snap install of the
\* name with the channel flag and without --classic, and on success returns
\* the one Snap in the state asked for.
C13_InstallWithChannel ==
    [][ ReconcilesOne
        => ReconciledBy(<<"snap", "install", last'.snap_names[1], "",
                          "--channel=\"" \o last'.opts[2] \o "\"">>) ]_vars

\* C13 amended: the install carries --classic exactly when the Snap's
\* confinement was "classic" already (by snapd's find or an earlier ensure).
C13_InstallWithChannelAndConfinement ==
    [][ ReconcilesOne
        => ReconciledBy(<<"snap", "install", last'.snap_names[1],
                          IF PriorConfinement(last'.snap_names[1]) = "classic"
                          THEN "--classic" ELSE "",
                          "--channel=\"" \o last'.opts[2] \o "\"">>) ]_vars

\* ensure(["a"], "latest", channel="edge") installed a from edge, not classic
C13_Witness ==
    /\ last.op = "ensure"
    /\ last.snap_names = <<"a">>
    /\ last.state = "latest"
    /\ last.opts = <<FALSE, "edge">>
    /\ Cmds(last.log) = << <<"snap", "install", "a", "", "--channel=\"edge\"">> >>
    /\ last.err = "None"
    /\ last.shape = "Snap"
    /\ heap[last.ret[1]].state = Latest

\* C14: from any state, a batch for Absent run with any channel and classic
\* has the very outcomes of the batch run with none: the same I/O in the
\* same order, the same exception or result, and the same Snaps field by
\* field, for add with state Absent and for the top-level ensure.
C14_RemovalIgnoresOptions ==
    \A snap_names \in NameLists :
        LET plain == add(snap_names, Absent, "", FALSE)
            plainEnsure == ensure(snap_names, "absent", "", FALSE)
        IN \A channel \in Channels, classic \in BOOLEAN :
              /\ add(snap_names, Absent, channel, classic) = plain
              /\ ensure(snap_names, "absent", channel, classic) = plainEnsure

\* an ensure to absent, called with classic and a channel, removed snap a
\* and left its confinement other than classic
C14_Witness ==
    /\ last.op = "ensure"
    /\ last.state = "absent"
    /\ last.opts = <<TRUE, "edge">>
    /\ last.snap_names = <<"a">>
    /\ Cmds(last.log) = << <<"snap", "remove", "a">> >>
    /\ last.err = "None"
    /\ heap[last.ret[1]].state = Absent
    /\ heap[last.ret[1]].confinement # "classic"

\* a Snap.ensure asks for the state its Snap is in
EqualStateEnsure == last'.op = "Snap.ensure" /\ heap[last'.self].state = last'.state

\* C15 as stated: a Snap.ensure for the state its Snap is in runs no
\* command, raises nothing and leaves every field of every Snap, the
\* confinement included, as it was, whatever classic is.
C15_EqualStateIgnoresClassic ==
    [][ EqualStateEnsure
        => /\ last'.log = <<>>
           /\ last'.err = "None"
           /\ heap' = heap ]_vars

\* C15 amended: such a call runs no command and raises nothing, and changes
\* the confinement of its Snap alone: to "classic" when classic is true or
\* the confinement was "classic", and to "" otherwise.
C15_EqualStateUpdatesConfinement ==
    [][ EqualStateEnsure
        => /\ last'.log = <<>>
           /\ last'.err = "None"
           /\ heap' = [heap EXCEPT ![last'.self].confinement =
                          IF last'.opts[1] \/ @ = "classic" THEN "classic" ELSE ""] ]_vars

\* snap a, which snapd reports strict, is classic after an ensure(classic=true)
\* for the state it was in, which ran no command
C15_Witness ==
    /\ last.op = "Snap.ensure"
    /\ last.opts[1]
    /\ last.log = <<>>
    /\ last.err = "None"
    /\ heap[last.self].state = last.state
    /\ heap[last.self].name = "a"
    /\ heap[last.self].confinement = "classic"

\* a Snap.ensure asks for a state its Snap is not in
OtherStateEnsure == last'.op = "Snap.ensure" /\ heap[last'.self].state # last'.state

\* the command of Snap._remove for the Snap of the call
RemoveCmd == <<"snap", "remove", heap[last'.self].name>>

\* the command of Snap._install for the Snap of the call: the channel given
\* and the flag of the confinement the Snap has by then
InstallCmd ==
    <<"snap", "install", heap[last'.self].name,
      IF heap'[last'.self].confinement = "classic" THEN "--classic" ELSE "",
      IF last'.opts[2] # "" THEN "--channel=\"" \o last'.opts[2] \o "\"" ELSE "">>

\* C16 as stated: a Snap.ensure for a state its Snap is not in runs snap
\* remove exactly when the state asked for is Absent, and snap install, with
\* the channel given and the Snap's confinement flag, for Present, Latest and
\* Available.
C16_RemoveForAbsentOnly ==
    [][ OtherStateEnsure
        => Cmds(last'.log) = << IF last'.state = Absent THEN RemoveCmd ELSE InstallCmd >> ]_vars

\* C16 amended: it runs snap remove exactly when the state asked for is
\* Absent or Available, and snap install for Present and Latest.
C16_InstallForPresentAndLatest ==
    [][ OtherStateEnsure
        => Cmds(last'.log) = << IF last'.state \in {Absent, Available}
                                THEN RemoveCmd ELSE InstallCmd >> ]_vars

\* an ensure(Available) of an installed snap ran snap remove
C16_Witness ==
    /\ last.op = "Snap.ensure"
    /\ last.state = Available
    /\ last.err = "None"
    /\ Cmds(last.log) = << <<"snap", "remove", heap[last.self].name>> >>
    /\ heap[last.self].state = Available
    /\ heap[last.self].name \notin installed

\* C17: a Snap.ensure whose command exits 0 leaves the state asked for in
\* its Snap; one whose command exits non-zero raises SnapError and leaves the
\* state as it was; and so does an assignment to the state property.
C17_StateFollowsOutcome ==
    /\ [](\A self \in 1..Len(heap), state \in SnapState, classic \in BOOLEAN,
             channel \in Channels, ok \in BOOLEAN :
             LET e == Snap_ensure(heap[self], state, classic, channel, ok)
                 t == Snap_state_setter(heap[self], state, ok)
             IN /\ e.log # <<>>
                   => IF ok THEN e.err = "None" /\ e.self.state = state
                      ELSE e.err = "SnapError" /\ e.self.state = heap[self].state
                /\ t.log # <<>>
                   => IF ok THEN t.err = "None" /\ t.self.state = state
                      ELSE t.err = "SnapError" /\ t.self.state = heap[self].state)
    /\ [][ (last'.op \in {"Snap.ensure", "Snap.state"} /\ Cmds(last'.log) # <<>>)
           => IF last'.err = "None"
              THEN heap'[last'.self].state = last'.state
              ELSE /\ last'.err = "SnapError"
                   /\ heap'[last'.self].state = heap[last'.self].state ]_vars

\* an assignment to the state property raised SnapError and the Snap is not
\* in the state assigned
C17_Witness ==
    /\ last.op = "Snap.state"
    /\ last.err = "SnapError"
    /\ Cmds(last.log) # <<>>
    /\ heap[last.self].state # last.state

\* the names the lines of /var/cache/snapd/names hold, blank lines apart
IndexNames ==
    IF names_file = NoFile THEN {}
    ELSE { Strip(names_file[i]) : i \in 1..Len(names_file) } \ {""}

\* C18: in a cache, right after its construction and after any lookups,
\* every name of the index file is a key; right after the construction the
\* keys are those names and the installed snaps, every installed snap, in the
\* index file or not, has a Snap in state Latest, and every name of the index
\* file that is not installed has a placeholder.
C18_TwoPhasePopulation ==
    cache
    => /\ \A n \in IndexNames : HasKey(snap_map, n)
       /\ last.op = "SnapCache"
          => /\ DOMAIN snap_map = IndexNames \cup installed
             /\ \A n \in installed :
                   /\ Populated(snap_map, n)
                   /\ heap[snap_map[n]].state = Latest
                   /\ heap[snap_map[n]].name = n
             /\ \A n \in IndexNames \ installed : snap_map[n] = None

\* a construction read an index file naming an installed snap and a snap that
\* is not installed
C18_Witness ==
    /\ cache
    /\ last.op = "SnapCache"
    /\ IndexNames \cap installed # {}
    /\ IndexNames \ installed # {}

\* C19: every Snap in state Absent names a snap that is not installed, and
\* every Snap in state Present or Latest names one that is.
C19_StateMatchesReality ==
    \A i \in 1..Len(heap) :
        /\ heap[i].state = Absent => heap[i].name \notin installed
        /\ heap[i].state \in {Present, Latest} => heap[i].name \in installed

\* after a command that failed, one Snap is Absent and the other Present
C19_Witness ==
    /\ last.op \in {"Snap.ensure", "Snap.state"}
    /\ last.err = "SnapError"
    /\ \E i, j \in 1..Len(heap) :
          /\ heap[i].state = Absent /\ heap[i].name \notin installed
          /\ heap[j].state = Present /\ heap[j].name \in installed

InstallOrRemoveOnly(log) ==
    \A i \in 1..Len(Cmds(log)) : Cmds(log)[i][2] \in {"install", "remove"}

\* C21: the commands of a Snap.ensure, of an assignment to the state property
\* and of an add or remove batch are snap install and snap remove only, never
\* snap refresh; a Snap.ensure or an assignment that takes an installed snap
\* from Present to Latest or from Latest to Present runs snap install.
C21_NoRefresh ==
    /\ [](\A snap_names \in NameLists :
             /\ \A o \in remove(snap_names) : InstallOrRemoveOnly(o.w.log)
             /\ \A state \in SnapState, channel \in Channels, classic \in BOOLEAN :
                   \A o \in add(snap_names, state, channel, classic) :
                       InstallOrRemoveOnly(o.w.log))
    /\ [][ last'.op \in {"Snap.ensure", "Snap.state"}
           => /\ InstallOrRemoveOnly(last'.log)
              /\ (/\ heap[last'.self].state \in {Present, Latest}
                  /\ last'.state \in {Present, Latest}
                  /\ heap[last'.self].state # last'.state)
                 => /\ Len(Cmds(last'.log)) = 1
                    /\ Cmds(last'.log)[1][2] = "install"
                    /\ Cmds(last'.log)[1][3] = heap[last'.self].name ]_vars

\* an ensure(Latest) of an installed snap that is Present ran snap install,
\* which failed and left it Present
C21_Witness ==
    /\ last.op = "Snap.ensure"
    /\ last.state = Latest
    /\ last.err = "SnapError"
    /\ heap[last.self].state = Present
    /\ heap[last.self].name \in installed
    /\ Len(Cmds(last.log)) = 1
    /\ Cmds(last.log)[1][2] = "install"

\* C22: a lookup that raises leaves the map and every Snap as they were (a
\* name that was no key is none, a placeholder stays one), and a lookup of
\* the same name right after it makes the request GET find for that name
\* again.
C22_FailedLookupForgotten ==
    [][ /\ (last'.op = "getitem" /\ last'.err # "None")
           => /\ snap_map' = snap_map
              /\ heap' = heap
              /\ cache' = cache
        /\ (/\ last.op = "getitem" /\ last.err # "None"
            /\ last'.op = "getitem" /\ last'.snap_names = last.snap_names)
           => last'.log = << <<"GET", "find", last'.snap_names[1]>> >> ]_vars

\* a lookup of a name that is no key raised, and the name is still no key
C22_Witness ==
    /\ last.op = "getitem"
    /\ last.err = "SnapNotFoundError"
    /\ last.log = << <<"GET", "find", last.snap_names[1]>> >>
    /\ ~HasKey(snap_map, last.snap_names[1])
    /\ \E n \in DOMAIN snap_map : snap_map[n] = None

\* C23: an ensure whose state is anything but the string "present" or
\* "latest" ("available", a string that is no state, the member
\* SnapState.Latest) has, from any state and whatever channel and classic
\* are, the very outcomes of remove of the same names; it raises no
\* ValueError, every command it runs is snap remove, and when it raises
\* nothing the Snap of every name is Absent.
C23_EnsureDispatch ==
    /\ [](\A snap_names \in NameLists :
             LET removal == remove(snap_names)
             IN \A state \in DispatchStates \ {"present", "latest"},
                   channel \in Channels, classic \in BOOLEAN :
                   ensure(snap_names, state, channel, classic) = removal)
    /\ [][ (last'.op = "ensure" /\ last'.state \notin {"present", "latest"})
           => /\ last'.err # "ValueError"
              /\ \A i \in 1..Len(Cmds(last'.log)) : Cmds(last'.log)[i][2] = "remove"
              /\ last'.err = "None"
                 => \A n \in Range(last'.snap_names) :
                       /\ Populated(snap_map', n)
                       /\ heap'[snap_map'[n]].state = Absent
                       /\ n \notin installed' ]_vars

\* ensure(["a"], SnapState.Latest) removed the installed snap a
C23_Witness ==
    /\ last.op = "ensure"
    /\ last.state = Latest
    /\ last.snap_names = <<"a">>
    /\ last.err = "None"
    /\ Cmds(last.log) = << <<"snap", "remove", "a">> >>
    /\ heap[last.ret[1]].state = Absent
    /\ "a" \notin installed

====
